---- MODULE Spec2Model ----
(***************************************************************************)
(* kinobot: the palette engine (kinobot/palette.py) and the Discord        *)
(* reaction handler (kinobot/discord.py).                                  *)
(*                                                                         *)
(* Python values are modelled as follows.  A colour is the tuple of its    *)
(* channel values.  A value that may be None, a list or a raised exception *)
(* is a record [kind, val].  Python's int() truncates toward zero (Trunc). *)
(* Floating point products and quotients are modelled by exact rational    *)
(* arithmetic on the bounded inputs below, on which both agree, except     *)
(* for the legacy strip height, which is modelled as a set (see            *)
(* height_palette_values).                                                 *)
(***************************************************************************)
EXTENDS Integers, Sequences, FiniteSets, TLC

VARIABLES
    \* clean_colors applied once and then to its own result
    cpc, colors, tolerancy, cleaned, again,
    \* get_most_diff
    dpc, saved_colors, new_colors, most_diff,
    \* get_palette and get_palette_legacy: the call's position, its inputs
    \* (image size, border argument, what the colour extractor does), the
    \* locals of the source, and what the call gives its caller
    pc, image, border_arg, extraction, palette, border, new_w, div_palette,
    height_palette, off_palette, strip, bg_size, bordered, pasted_at, result,
    \* on_reaction_add: the reaction event handled last, what the handler did
    \* with it, and the calls made to kinobot.db so far
    reaction, outcome, db_calls

cleanVars == <<cpc, colors, tolerancy, cleaned, again>>
diffVars == <<dpc, saved_colors, new_colors, most_diff>>
layoutVars == <<pc, image, border_arg, extraction, palette, border, new_w, div_palette,
                height_palette, off_palette, strip, bg_size, bordered, pasted_at, result>>
discordVars == <<reaction, outcome, db_calls>>

vars == <<cleanVars, diffVars, layoutVars, discordVars>>

(***************************************************************************)
(* Bounds of the model.                                                    *)
(***************************************************************************)
MaxLen == 7
MaxTol == 3
MaxSaved == 3
MaxNew == 3
MaxW == 12
MaxH == 3
MaxColors == 11
MaxLines == 2
MaxRequests == 2
MaxCalls == 2

SeqsUpTo(S, n) == UNION {[1..k -> S] : k \in 0..n}

(***************************************************************************)
(* Python values.                                                          *)
(***************************************************************************)
None == [kind |-> "None", val |-> <<>>]
List(s) == [kind |-> "list", val |-> s]
Raise(exc) == [kind |-> "raise", val |-> <<exc>>]
NotRun == [kind |-> "notrun", val |-> <<>>]

(***************************************************************************)
(* The parts of the state a specification does not exercise stay idle.     *)
(***************************************************************************)
CleanIdle ==
    /\ cpc = "idle"
    /\ colors = <<>>
    /\ tolerancy = 2
    /\ cleaned = NotRun
    /\ again = NotRun

DiffIdle ==
    /\ dpc = "idle"
    /\ saved_colors = <<>>
    /\ new_colors = <<>>
    /\ most_diff = NotRun

NoResult == [kind |-> "none", exc |-> "", w |-> 0, h |-> 0]
NoCanvas == [w |-> 0, h |-> 0, left |-> 0, top |-> 0]
NoPaste == [x |-> 0, y |-> 0, w |-> 0, h |-> 0]

\* the locals of a layout call before any of them is assigned
LayoutLocalsUnset ==
    /\ palette = NotRun
    /\ border = 0
    /\ new_w = 0
    /\ div_palette = 0
    /\ height_palette = 0
    /\ off_palette = 0
    /\ strip = <<>>
    /\ bg_size = <<0, 0>>
    /\ bordered = NoCanvas
    /\ pasted_at = NoPaste
    /\ result = NoResult

LayoutIdle ==
    /\ pc = "idle"
    /\ image = [w |-> 1, h |-> 1]
    /\ border_arg = <<15, 1000>>
    /\ extraction = NotRun
    /\ LayoutLocalsUnset

NoReaction == [bot |-> TRUE, top_role |-> <<>>, emoji |-> "", kind |-> "", ids |-> <<>>]
NoOutcome == [did |-> "none", call |-> "none", id |-> 0]

DiscordIdle ==
    /\ reaction = NoReaction
    /\ outcome = NoOutcome
    /\ db_calls = <<>>

\* colors[:k] for 0 <= k <= len(colors)
Prefix(s, k) == SubSeq(s, 1, k)

(***************************************************************************)
(* clean_colors (palette.py 84-106).                                       *)
(***************************************************************************)
WHITE_THRESHOLD == 160

\* the inner loop, lines 97-100: channels of one colour brighter than 160
ColorHits(color) == Cardinality({k \in 1..Len(color) : color[k] > WHITE_THRESHOLD})

\* the outer loop, lines 96-106; `color` is the 0-based index of the source
RECURSIVE clean_loop(_, _, _)
clean_loop(cs, tol, color) ==
    IF color >= Len(cs) THEN List(cs)
    ELSE IF ColorHits(cs[color + 1]) > tol THEN List(Prefix(cs, color))
    ELSE clean_loop(cs, tol, color + 1)

clean_colors_keeps_short(cs, tol) ==
    IF Len(cs) < 6 THEN List(cs) ELSE clean_loop(cs, tol, 5)

clean_colors_from_zero(cs, tol) ==
    IF Len(cs) < 6 THEN None ELSE clean_loop(cs, tol, 0)

clean_colors_inclusive(cs, tol) ==
    IF Len(cs) < 6 THEN None
    ELSE LET r == clean_loop(cs, tol, 5)
         IN  IF Len(r.val) < Len(cs) THEN List(Prefix(cs, Len(r.val) + 1)) ELSE r

clean_colors(cs, tol) ==
    IF Len(cs) < 6 THEN None ELSE clean_loop(cs, tol, 5)

\* clean_colors applied to a Python value: len(None) raises TypeError (line 91)
clean_colors_value(v, tol) ==
    IF v.kind = "list" THEN clean_colors(v.val, tol) ELSE Raise("TypeError")

\* three bright channels, two bright channels (one exactly at 160), none
CleanColours == {<<161, 161, 161>>, <<161, 160, 255>>, <<0, 0, 0>>}

CleanInit ==
    /\ cpc = "start"
    /\ colors \in SeqsUpTo(CleanColours, MaxLen)
    /\ tolerancy \in 0..MaxTol
    /\ cleaned = NotRun
    /\ again = NotRun

CleanOnce ==
    /\ cpc = "start"
    /\ cleaned' = clean_colors(colors, tolerancy)
    /\ cpc' = "once"
    /\ UNCHANGED <<colors, tolerancy, again>>
    /\ UNCHANGED <<diffVars, layoutVars, discordVars>>

CleanTwice ==
    /\ cpc = "once"
    /\ again' = clean_colors_value(cleaned, tolerancy)
    /\ cpc' = "twice"
    /\ UNCHANGED <<colors, tolerancy, cleaned>>
    /\ UNCHANGED <<diffVars, layoutVars, discordVars>>

NextClean == CleanOnce \/ CleanTwice

InitClean == CleanInit /\ DiffIdle /\ LayoutIdle /\ DiscordIdle

SpecClean == InitClean /\ [][NextClean]_vars

(***************************************************************************)
(* Claims about clean_colors.                                              *)
(***************************************************************************)
\* 0-based indices i >= 5 whose colour has more than `tol` channels above 160
BrightFrom5(cs, tol) == {i \in 5..(Len(cs) - 1) : ColorHits(cs[i + 1]) > tol}

SetMin(S) == CHOOSE x \in S : \A y \in S : x <= y

Min2(a, b) == IF a < b THEN a ELSE b

\* C3: for an input of length >= 6, clean_colors returns the prefix strictly
\* before the smallest index i >= 5 whose colour has more than `tolerancy`
\* channels above 160, and the whole input when there is no such index.
C3_CleanCutsAtFirstBright ==
    (cpc # "start" /\ Len(colors) >= 6) =>
        cleaned = IF BrightFrom5(colors, tolerancy) = {}
                  THEN List(colors)
                  ELSE List(Prefix(colors, SetMin(BrightFrom5(colors, tolerancy))))

\* a cut behind index 5 although one of the first five colours is as bright
C3_Witness ==
    /\ cpc # "start"
    /\ Len(colors) >= 7
    /\ cleaned.kind = "list"
    /\ Len(cleaned.val) = 6
    /\ \E i \in 1..5 : ColorHits(colors[i]) > tolerancy

RED_DIFF == 10

Abs(x) == IF x < 0 THEN -x ELSE x

\* lines 43-46: the saved colours whose red channel is more than 10 away
DiffHits(new, saved) ==
    Cardinality({k \in 1..Len(saved) : Abs(new[1] - saved[k][1]) > RED_DIFF})

\* lines 41-47: one {"color", "hits"} entry per candidate, in candidate order
HitEntries(saved, news) ==
    [i \in 1..Len(news) |-> [color |-> news[i], hits |-> DiffHits(news[i], saved)]]

\* sorted(..., key=itemgetter("hits"), reverse=True): a stable sort, so under
\* reverse=True entries with equal hits keep their original order.  An entry
\* is inserted behind every entry already placed whose hits are >= its own.
RECURSIVE InsertDesc(_, _)
InsertDesc(sorted, e) ==
    IF sorted = <<>> THEN <<e>>
    ELSE IF Head(sorted).hits >= e.hits
         THEN <<Head(sorted)>> \o InsertDesc(Tail(sorted), e)
         ELSE <<e>> \o sorted

\* an unstable descending order: an entry goes in front of equal ones
RECURSIVE InsertDescUnstable(_, _)
InsertDescUnstable(sorted, e) ==
    IF sorted = <<>> THEN <<e>>
    ELSE IF Head(sorted).hits > e.hits
         THEN <<Head(sorted)>> \o InsertDescUnstable(Tail(sorted), e)
         ELSE <<e>> \o sorted

RECURSIVE sorted_unstable(_)
sorted_unstable(entries) ==
    IF entries = <<>> THEN <<>>
    ELSE InsertDescUnstable(sorted_unstable(Prefix(entries, Len(entries) - 1)),
                            entries[Len(entries)])

RECURSIVE sorted_by_hits_reverse(_)
sorted_by_hits_reverse(entries) ==
    IF entries = <<>> THEN <<>>
    ELSE InsertDesc(sorted_by_hits_reverse(Prefix(entries, Len(entries) - 1)),
                    entries[Len(entries)])

get_most_diff_unstable(saved, news) ==
    IF news = <<>> THEN Raise("IndexError")
    ELSE [kind |-> "dict", val |-> sorted_unstable(HitEntries(saved, news))[1]]

\* line 49; [0] of an empty list raises IndexError
get_most_diff(saved, news) ==
    IF news = <<>> THEN Raise("IndexError")
    ELSE [kind |-> "dict", val |-> sorted_by_hits_reverse(HitEntries(saved, news))[1]]

\* red channels 0, 10, 11 and 30: differences of exactly 10 and of 11 occur
DiffColours == {<<0, 0, 0>>, <<10, 0, 0>>, <<11, 0, 0>>, <<30, 9, 9>>}

DiffInit ==
    /\ dpc = "start"
    /\ saved_colors \in SeqsUpTo(DiffColours, MaxSaved)
    /\ new_colors \in SeqsUpTo(DiffColours, MaxNew)
    /\ most_diff = NotRun

MostDiff ==
    /\ dpc = "start"
    /\ most_diff' = get_most_diff(saved_colors, new_colors)
    /\ dpc' = "done"
    /\ UNCHANGED <<saved_colors, new_colors>>
    /\ UNCHANGED <<cleanVars, layoutVars, discordVars>>

NextDiff == MostDiff

InitDiff == DiffInit /\ CleanIdle /\ LayoutIdle /\ DiscordIdle

SpecDiff == InitDiff /\ [][NextDiff]_vars

\* C9: for a non-empty candidate list, get_most_diff returns the candidate
\* with the maximum hit count (accepted colours whose red channel is more
\* than 10 away), and among several with the maximum the one that occurs
\* first in the candidate list.
C9_MostDiffIsFirstMax ==
    (dpc = "done" /\ new_colors # <<>>) =>
        \E k \in 1..Len(new_colors) :
            /\ most_diff.kind = "dict"
            /\ most_diff.val.color = new_colors[k]
            /\ most_diff.val.hits = DiffHits(new_colors[k], saved_colors)
            /\ \A j \in 1..Len(new_colors) :
                   DiffHits(new_colors[j], saved_colors) <= DiffHits(new_colors[k], saved_colors)
            /\ \A j \in 1..(k - 1) :
                   DiffHits(new_colors[j], saved_colors) < DiffHits(new_colors[k], saved_colors)

\* a lower-scoring candidate comes first and two different candidates tie on
\* the maximum: the earlier of the two is returned
C9_Witness ==
    /\ dpc = "done"
    /\ Len(new_colors) = 3
    /\ DiffHits(new_colors[1], saved_colors) < DiffHits(new_colors[2], saved_colors)
    /\ DiffHits(new_colors[2], saved_colors) = DiffHits(new_colors[3], saved_colors)
    /\ new_colors[2] # new_colors[3]
    /\ most_diff.kind = "dict"
    /\ most_diff.val.color = new_colors[2]

(***************************************************************************)
(* The layouts' inputs and the library calls they make.                    *)
(***************************************************************************)
Dark == <<10, 20, 30>>
White == <<255, 255, 255>>
\* a two-channel pixel, as a grey image with alpha gives: no RGB colour
GreyAlpha == <<200, 255>>

\* n colours: GreyAlpha at position grey, White at position white (1-based;
\* a position beyond n places nothing), Dark elsewhere
Colours(n, white, grey) ==
    [i \in 1..n |-> IF i = grey THEN GreyAlpha ELSE IF i = white THEN White ELSE Dark]

\* what color_func(image) does: it raises, or returns a list of pixels
Extractions ==
    {Raise("ExtractError")} \cup
    {List(Colours(n, white, grey)) : n \in 0..MaxColors, white \in {0, 3, 6, 9}, grey \in {0, 2, 7}}

Images == [w : (1..MaxW) \cup {100, 1001}, h : (1..MaxH) \cup {100, 500}]

\* the border argument as a fraction <<numerator, denominator>>; 0.015 is the default
BorderArgs == {<<15, 1000>>, <<1, 8>>, <<1, 2>>}

\* Python's int() of the quotient a / b, b > 0: truncation toward zero
Trunc(a, b) == IF a >= 0 THEN a \div b ELSE -((-a) \div b)

\* PIL accepts a tuple of 3 or 4 values as the fill of an RGB image
ColourOk(c) == Len(c) \in {3, 4}

\* PIL Image.new(mode, size, color): ValueError for a negative side, checked
\* first, TypeError for a fill that is no colour of the mode
ImageNew(size, colour_ok) ==
    IF size[1] < 0 \/ size[2] < 0 THEN "ValueError"
    ELSE IF ~colour_ok THEN "TypeError"
    ELSE "ok"

\* the index of the first tile whose construction raises, 0 when none does
FirstError(tiles) ==
    IF \A i \in 1..Len(tiles) : tiles[i].err = "ok" THEN 0
    ELSE SetMin({i \in 1..Len(tiles) : tiles[i].err # "ok"})

Original == [kind |-> "original", exc |-> "", w |-> image.w, h |-> image.h]
Raised(exc) == [kind |-> "raise", exc |-> exc, w |-> 0, h |-> 0]
Composite(canvas) == [kind |-> "composite", exc |-> "", w |-> canvas.w, h |-> canvas.h]

(***************************************************************************)
(* get_palette (palette.py 173-232), the modern layout.                    *)
(***************************************************************************)
DEFAULT_TOLERANCY == 2

\* Python's round() of the quotient a / b, a >= 0, b > 0: to the nearest
\* integer, a half to the even neighbour
PyRound(a, b) ==
    LET q == a \div b
        r == a % b
    IN  IF 2 * r > b THEN q + 1
        ELSE IF 2 * r < b THEN q
        ELSE IF q % 2 = 0 THEN q ELSE q + 1

\* the border with int() replaced by round()
modern_border_round(w, h, arg) ==
    LET b == PyRound(w * arg[1], arg[2])
    IN  IF 10 * w > 21 * h THEN b - Trunc(4 * w, h) ELSE b

\* lines 196-198: border = int(w * border), less int((w / h) * 4) when w / h > 2.1
modern_border(w, h, arg) ==
    LET b == Trunc(w * arg[1], arg[2])
    IN  IF 10 * w > 21 * h THEN b - Trunc(4 * w, h) ELSE b

\* lines 207-222: the width of the tile of the colour at 0-based index `color`
modern_tile_width(color, n, w, div) ==
    IF color = 0 THEN div
    ELSE IF color = n - 1 THEN div + Trunc(w - (div * (n - 1)), 2)
    ELSE div

\* lines 204-222: next_ grows by div_palette per colour
modern_tiles(pal, w, div, b) ==
    [i \in 1..Len(pal) |->
        LET width == modern_tile_width(i - 1, Len(pal), w, div)
        IN  [x |-> (i - 1) * div, w |-> width, h |-> b,
             err |-> ImageNew(<<width, b>>, ColourOk(pal[i]))]]

\* line 231: except TypeError
modern_catches(exc) == exc = "TypeError"

\* lines 224-226: ImageOps.expand pastes the image at (left, top) of the canvas
modern_expand(w, h, b) == [w |-> b + w + b, h |-> b + h + 0, left |-> b, top |-> b]

\* line 227: paste clips the strip to the canvas
modern_paste(h, size) == [x |-> 0, y |-> h, w |-> size[1], h |-> size[2]]

ModernInit ==
    /\ pc = "Extract"
    /\ image \in Images
    /\ border_arg \in BorderArgs
    /\ extraction \in Extractions
    /\ LayoutLocalsUnset

\* lines 182-187
ModernExtract ==
    /\ pc = "Extract"
    /\ IF extraction.kind = "raise"
       THEN pc' = "ReturnOriginal" /\ result' = Original
       ELSE pc' = "Clean" /\ result' = result
    /\ UNCHANGED <<image, border_arg, extraction, palette, border, new_w, div_palette,
                   height_palette, off_palette, strip, bg_size, bordered, pasted_at>>
    /\ UNCHANGED <<cleanVars, diffVars, discordVars>>

\* lines 189-192; None and the empty list are both false
ModernClean ==
    /\ pc = "Clean"
    /\ palette' = clean_colors(extraction.val, DEFAULT_TOLERANCY)
    /\ IF palette'.kind = "None" \/ palette'.val = <<>>
       THEN pc' = "ReturnOriginal" /\ result' = Original
       ELSE pc' = "BuildStrip" /\ result' = result
    /\ UNCHANGED <<image, border_arg, extraction, border, new_w, div_palette,
                   height_palette, off_palette, strip, bg_size, bordered, pasted_at>>
    /\ UNCHANGED <<cleanVars, diffVars, discordVars>>

\* lines 195-222; the strip's background is made outside the try block
ModernBuildStrip ==
    /\ pc = "BuildStrip"
    /\ LET b == modern_border(image.w, image.h, border_arg)
           nw == image.w + (b * 2)
           dv == Trunc(nw, Len(palette.val))
           tiles == modern_tiles(palette.val, image.w, dv, b)
           k == FirstError(tiles)
       IN  /\ border' = b
           /\ new_w' = nw
           /\ div_palette' = dv
           /\ IF ImageNew(<<nw, b>>, TRUE) # "ok"
              THEN /\ pc' = "Raised"
                   /\ result' = Raised(ImageNew(<<nw, b>>, TRUE))
                   /\ UNCHANGED <<strip, bg_size>>
              ELSE /\ bg_size' = <<nw, b>>
                   /\ IF k = 0
                      THEN strip' = tiles /\ pc' = "ExpandCanvas" /\ result' = result
                      ELSE /\ strip' = Prefix(tiles, k - 1)
                           /\ IF modern_catches(tiles[k].err)
                              THEN pc' = "ReturnOriginal" /\ result' = Original
                              ELSE pc' = "Raised" /\ result' = Raised(tiles[k].err)
    /\ UNCHANGED <<image, border_arg, extraction, palette,
                   height_palette, off_palette, bordered, pasted_at>>
    /\ UNCHANGED <<cleanVars, diffVars, discordVars>>

\* lines 224-226
ModernExpandCanvas ==
    /\ pc = "ExpandCanvas"
    /\ LET canvas == modern_expand(image.w, image.h, border)
           err == ImageNew(<<canvas.w, canvas.h>>, ColourOk(palette.val[1]))
       IN  IF err = "ok"
           THEN bordered' = canvas /\ pc' = "Paste" /\ result' = result
           ELSE /\ bordered' = bordered
                /\ IF modern_catches(err)
                   THEN pc' = "ReturnOriginal" /\ result' = Original
                   ELSE pc' = "Raised" /\ result' = Raised(err)
    /\ UNCHANGED <<image, border_arg, extraction, palette, border, new_w, div_palette,
                   height_palette, off_palette, strip, bg_size, pasted_at>>
    /\ UNCHANGED <<cleanVars, diffVars, discordVars>>

\* lines 227-229
ModernPaste ==
    /\ pc = "Paste"
    /\ pasted_at' = modern_paste(image.h, bg_size)
    /\ pc' = "Done"
    /\ result' = Composite(bordered)
    /\ UNCHANGED <<image, border_arg, extraction, palette, border, new_w, div_palette,
                   height_palette, off_palette, strip, bg_size, bordered>>
    /\ UNCHANGED <<cleanVars, diffVars, discordVars>>

NextModern ==
    \/ ModernExtract
    \/ ModernClean
    \/ ModernBuildStrip
    \/ ModernExpandCanvas
    \/ ModernPaste

InitModern == ModernInit /\ CleanIdle /\ DiffIdle /\ DiscordIdle

SpecModern == InitModern /\ [][NextModern]_vars

(***************************************************************************)
(* Claims about get_palette.                                               *)
(***************************************************************************)
RECURSIVE SumWidths(_)
SumWidths(tiles) ==
    IF tiles = <<>> THEN 0 ELSE Head(tiles).w + SumWidths(Tail(tiles))

StripBuilt == pc \in {"ExpandCanvas", "Paste", "Done"}

\* C1: a call of get_palette ends in Done (a composited image) or in
\* ReturnOriginal (the input image); no failure of any stage, a border that
\* the wide-image reduction makes negative included, reaches the caller as
\* an exception.
C1_NeverRaises ==
    /\ pc # "Raised"
    /\ result.kind # "raise"

\* C6: for palette lengths 2..20 the tiles' widths sum exactly to
\* new_w = width + 2 * border and each tile starts where the previous ends.
C6_TilesSpanNewWidth ==
    (StripBuilt /\ Len(strip) \in 2..20) =>
        /\ SumWidths(strip) = new_w
        /\ strip[1].x = 0
        /\ \A i \in 1..(Len(strip) - 1) : strip[i + 1].x = strip[i].x + strip[i].w

\* C7 as stated: a composited image is inputWidth + 2 * round(inputWidth *
\* borderFraction) wide, the border less int((w / h) * 4) when w / h > 2.1,
\* and never narrower than the input.
C7_Original ==
    pc = "Done" =>
        /\ result.w = image.w + 2 * (PyRound(image.w * border_arg[1], border_arg[2])
                                     - (IF 10 * image.w > 21 * image.h
                                        THEN Trunc(4 * image.w, image.h) ELSE 0))
        /\ result.w >= image.w

\* C7 amended: a composited image is inputWidth + 2 * int(inputWidth *
\* borderFraction) wide (int truncates; it does not round), the border less
\* int((w / h) * 4) when w / h > 2.1, and never narrower than the input.
C7_CompositeWidth ==
    pc = "Done" =>
        /\ result.kind = "composite"
        /\ result.w = image.w + 2 * (Trunc(image.w * border_arg[1], border_arg[2])
                                     - (IF 10 * image.w > 21 * image.h
                                        THEN Trunc(4 * image.w, image.h) ELSE 0))
        /\ result.w >= image.w

\* a wide image composited with a border that int() truncated and the
\* wide-image reduction left positive
C7_Witness ==
    /\ pc = "Done"
    /\ 10 * image.w > 21 * image.h
    /\ (image.w * border_arg[1]) % border_arg[2] # 0
    /\ border > 0
    /\ result.w = image.w + 2 * border

\* C8: in the composited image the strip covers the top border rows, which
\* end where the rows of the original pixels begin, and no row of the
\* original pixels.
C8_StripAboveOriginal ==
    (pc = "Done" /\ pasted_at.h > 0) =>
        /\ pasted_at.y = 0
        /\ pasted_at.y + pasted_at.h = bordered.top
        /\ \/ pasted_at.y + pasted_at.h <= bordered.top
           \/ pasted_at.y >= bordered.top + image.h

(***************************************************************************)
(* get_palette_legacy (palette.py 109-170), the legacy layout.             *)
(***************************************************************************)
MIN_COLORS == 10

\* lines 129-130: int(height / ((height / width) * 5.5)), exactly 2w / 11.
\* Where 2w / 11 is an integer the floating point quotient may fall just
\* below it, and int() then gives one less: both values are possible.
height_palette_values(w, h) ==
    IF (2 * w) % 11 = 0
    THEN {((2 * w) \div 11) - 1, (2 * w) \div 11}
    ELSE {(2 * w) \div 11}

\* line 131: int((width / len(palette)) * 0.99)
legacy_div_palette(w, n) == Trunc(99 * w, 100 * n)

\* line 132 (and line 140): int(div_palette * 0.95)
legacy_off_palette(div) == Trunc(95 * div, 100)

\* line 134: (width - int(off_palette * 0.2), height_palette)
legacy_bg_size(w, off, hp) == <<w - Trunc(2 * off, 10), hp>>

\* lines 137-150: every tile is off_palette wide, next_ grows by div_palette
legacy_tiles(pal, div, off, hp) ==
    [i \in 1..Len(pal) |->
        [x |-> (i - 1) * div, w |-> off, h |-> hp,
         err |-> ImageNew(<<off, hp>>, ColourOk(pal[i]))]]

\* line 152, PIL Image.resize: an image that already has the size asked for
\* is copied; otherwise a side below 1 is a ValueError
legacy_resize(from, to) ==
    IF from = to THEN "ok"
    ELSE IF to[1] < 1 \/ to[2] < 1 THEN "ValueError"
    ELSE "ok"

\* line 157: int(width * 0.0065)
legacy_borders(w) == Trunc(65 * w, 10000)

\* lines 158-160: border (left, top, right, bottom)
legacy_expand(w, h, hp, borders) ==
    [w |-> borders + w + borders, h |-> borders + h + (hp + borders),
     left |-> borders, top |-> borders]

\* lines 161-165: the strip with its own border, pasted at (borders, height)
legacy_paste(w, h, hp, borders) ==
    [x |-> borders, y |-> h, w |-> w, h |-> borders + hp + borders]

\* line 121
legacy_not_enough(n) == n < MIN_COLORS

legacy_catches_nothing(exc) == FALSE

\* line 169: except TypeError
legacy_catches(exc) == exc = "TypeError"

LegacyInit ==
    /\ pc = "Extract"
    /\ image \in Images
    /\ border_arg = <<15, 1000>>
    /\ extraction \in Extractions
    /\ LayoutLocalsUnset

\* lines 117-119: nothing catches what color_func raises
LegacyExtract ==
    /\ pc = "Extract"
    /\ IF extraction.kind = "raise"
       THEN pc' = "Raised" /\ result' = Raised(extraction.val[1]) /\ palette' = palette
       ELSE pc' = "CheckColors" /\ result' = result /\ palette' = extraction
    /\ UNCHANGED <<image, border_arg, extraction, border, new_w, div_palette,
                   height_palette, off_palette, strip, bg_size, bordered, pasted_at>>
    /\ UNCHANGED <<cleanVars, diffVars, discordVars>>

\* lines 121-125
LegacyCheckColors ==
    /\ pc = "CheckColors"
    /\ IF legacy_not_enough(Len(palette.val))
       THEN pc' = "Raised" /\ result' = Raised("NotEnoughColors")
       ELSE pc' = "BuildStrip" /\ result' = result
    /\ UNCHANGED <<image, border_arg, extraction, palette, border, new_w, div_palette,
                   height_palette, off_palette, strip, bg_size, bordered, pasted_at>>
    /\ UNCHANGED <<cleanVars, diffVars, discordVars>>

\* lines 129-152; the strip's background is made outside the try block
LegacyBuildStrip ==
    /\ pc = "BuildStrip"
    /\ \E hp \in height_palette_values(image.w, image.h) :
        LET dv == legacy_div_palette(image.w, Len(palette.val))
            off == legacy_off_palette(dv)
            size == legacy_bg_size(image.w, off, hp)
            tiles == legacy_tiles(palette.val, dv, off, hp)
            k == FirstError(tiles)
            resized == legacy_resize(size, <<image.w, hp>>)
        IN  /\ height_palette' = hp
            /\ div_palette' = dv
            /\ off_palette' = off
            /\ IF ImageNew(size, TRUE) # "ok"
               THEN /\ pc' = "Raised"
                    /\ result' = Raised(ImageNew(size, TRUE))
                    /\ UNCHANGED <<strip, bg_size>>
               ELSE /\ bg_size' = size
                    /\ strip' = IF k = 0 THEN tiles ELSE Prefix(tiles, k - 1)
                    /\ LET err == IF k # 0 THEN tiles[k].err ELSE resized
                       IN  IF err = "ok"
                           THEN pc' = "ExpandCanvas" /\ result' = result
                           ELSE IF legacy_catches(err)
                                THEN pc' = "ReturnOriginal" /\ result' = Original
                                ELSE pc' = "Raised" /\ result' = Raised(err)
    /\ UNCHANGED <<image, border_arg, extraction, palette, border, new_w,
                   bordered, pasted_at>>
    /\ UNCHANGED <<cleanVars, diffVars, discordVars>>

\* lines 157-163
LegacyExpandCanvas ==
    /\ pc = "ExpandCanvas"
    /\ LET borders == legacy_borders(image.w)
           canvas == legacy_expand(image.w, image.h, height_palette, borders)
           err == ImageNew(<<canvas.w, canvas.h>>, TRUE)
       IN  /\ border' = borders
           /\ IF err = "ok"
              THEN bordered' = canvas /\ pc' = "Paste" /\ result' = result
              ELSE /\ bordered' = bordered
                   /\ IF legacy_catches(err)
                      THEN pc' = "ReturnOriginal" /\ result' = Original
                      ELSE pc' = "Raised" /\ result' = Raised(err)
    /\ UNCHANGED <<image, border_arg, extraction, palette, new_w, div_palette,
                   height_palette, off_palette, strip, bg_size, pasted_at>>
    /\ UNCHANGED <<cleanVars, diffVars, discordVars>>

\* lines 165-167
LegacyPaste ==
    /\ pc = "Paste"
    /\ pasted_at' = legacy_paste(image.w, image.h, height_palette, border)
    /\ pc' = "Done"
    /\ result' = Composite(bordered)
    /\ UNCHANGED <<image, border_arg, extraction, palette, border, new_w, div_palette,
                   height_palette, off_palette, strip, bg_size, bordered>>
    /\ UNCHANGED <<cleanVars, diffVars, discordVars>>

NextLegacy ==
    \/ LegacyExtract
    \/ LegacyCheckColors
    \/ LegacyBuildStrip
    \/ LegacyExpandCanvas
    \/ LegacyPaste

InitLegacy == LegacyInit /\ CleanIdle /\ DiffIdle /\ DiscordIdle

SpecLegacy == InitLegacy /\ [][NextLegacy]_vars

GOOD_BAD == <<"thumbsup", "poop">>
EMOJI_STRS == <<"one", "two", "three", "four", "five">>
RANGE_DICT == [e \in {"one", "two", "three", "four", "five"} |->
                  CASE e = "one" -> 0 [] e = "two" -> 1 [] e = "three" -> 2
                    [] e = "four" -> 3 [] e = "five" -> 4]

Elements(t) == {t[i] : i \in 1..Len(t)}

\* line 267, the literal "botmin verifier"
BOTMIN_VERIFIER ==
    <<"b", "o", "t", "m", "i", "n", " ", "v", "e", "r", "i", "f", "i", "e", "r">>

RoleBotmin == <<"b", "o", "t", "m", "i", "n">>
RoleVerifier == <<"v", "e", "r", "i", "f", "i", "e", "r">>
RoleBot == <<"b", "o", "t">>
RoleMin == <<"m", "i", "n">>
RoleAdmin == <<"a", "d", "m", "i", "n">>
RoleEveryone == <<"@", "e", "v", "e", "r", "y", "o", "n", "e">>

TopRoles == {RoleBotmin, RoleVerifier, RoleBot, RoleMin, RoleAdmin, RoleEveryone}

\* Python's `a in b` for two strings: a occurs in b as a substring
StrIn(a, b) == \E i \in 0..(Len(b) - Len(a)) : SubSeq(b, i + 1, i + Len(a)) = a

\* line 267: str(user.top_role) in "botmin verifier"
role_allowed(role) == StrIn(role, BOTMIN_VERIFIER)

\* line 264: str(reaction) in GOOD_BAD + EMOJI_STRS, membership in a tuple
emoji_known(emoji) == emoji \in Elements(GOOD_BAD \o EMOJI_STRS)

RequestIds == 1..MaxRequests

\* What the message reacted to says.  "list": a search result that starts
\* with "1. " and has one line per request, each ending in "- <id>";
\* "Added" and "Possible NSFW": a message that names one request; "other".
Messages ==
    [kind : {"list"}, ids : UNION {[1..k -> RequestIds] : k \in 1..MaxLines}]
    \cup [kind : {"Added", "Possible NSFW", "other"}, ids : [1..1 -> RequestIds]]

Reactions ==
    {[bot |-> b, top_role |-> r, emoji |-> e, kind |-> m.kind, ids |-> m.ids] :
        b \in BOOLEAN, r \in TopRoles,
        e \in Elements(GOOD_BAD \o EMOJI_STRS) \cup {"heart"}, m \in Messages}

Ignored == [did |-> "return", call |-> "none", id |-> 0]
Called(fn, id) == [did |-> "send", call |-> fn, id |-> id]

\* lines 261-289
on_reaction_add(r) ==
    IF r.bot THEN Ignored
    ELSE IF ~emoji_known(r.emoji) THEN Ignored
    ELSE IF ~role_allowed(r.top_role) THEN Ignored
    ELSE IF r.kind = "list"
         THEN IF r.emoji \notin DOMAIN RANGE_DICT
              THEN [did |-> "KeyError", call |-> "none", id |-> 0]
              ELSE IF RANGE_DICT[r.emoji] >= Len(r.ids)
                   THEN [did |-> "send", call |-> "none", id |-> 0]
                   ELSE Called("verify_request", r.ids[RANGE_DICT[r.emoji] + 1])
    ELSE IF r.kind = "Added" /\ r.emoji = GOOD_BAD[2]
         THEN Called("remove_request", r.ids[1])
    ELSE IF r.kind = "Possible NSFW" /\ r.emoji = GOOD_BAD[1]
         THEN Called("verify_request", r.ids[1])
    ELSE Ignored

DiscordInit == DiscordIdle

OnReactionAdd ==
    /\ Len(db_calls) < MaxCalls
    /\ \E r \in Reactions :
        /\ reaction' = r
        /\ outcome' = on_reaction_add(r)
        /\ db_calls' = IF outcome'.call = "none" THEN db_calls
                       ELSE Append(db_calls, [fn |-> outcome'.call, id |-> outcome'.id])
    /\ UNCHANGED <<cleanVars, diffVars, layoutVars>>

NextDiscord == OnReactionAdd

InitDiscord == DiscordInit /\ CleanIdle /\ DiffIdle /\ LayoutIdle

SpecDiscord == InitDiscord /\ [][NextDiscord]_vars

\* C10: on_reaction_add calls db.verify_request or db.remove_request only
\* when the reacting user is no bot, the emoji is a recognised one, and the
\* user's top role is exactly 'botmin' or exactly 'verifier'.
C10_OnlyBotminOrVerifier ==
    outcome.call # "none" =>
        /\ ~reaction.bot
        /\ reaction.emoji \in Elements(GOOD_BAD \o EMOJI_STRS)
        /\ reaction.top_role \in {RoleBotmin, RoleVerifier}

====
